---- MODULE Spec2Model ----
(***************************************************************************)
(* Model of mlcheck.py: the HTML tag-stack validator (MyHTMLParser), the   *)
(* Moodle multichoice rule checker (validate_moodle_mc) and the per-file   *)
(* validation function (validate_file).                                    *)
(***************************************************************************)
EXTENDS Integers, Sequences, FiniteSets, TLC

\* ------------------------------------------------------------------ bounds
\* Longest tag-event stream fed to one parser.
MaxEvents == 4
\* Most element nodes below the root of a parsed XML tree.
MaxNodes == 2
\* Most <answer> children of one node.
MaxAnswers == 1
\* Most files validated in one batch run.
MaxFiles == 3
\* Most directories os.walk yields in one recursive run.
MaxDirs == 2

\* ------------------------------------------------------- static tag tables
HTML_VOID_ELEMENTS ==
    {"area", "base", "br", "col", "embed", "hr", "img", "input",
     "link", "meta", "param", "source", "track", "wbr"}

raw_context_tags == {"pre", "code", "script", "style"}

\* Tag names the tokenizer hands to the parser in this model: three ordinary
\* names, one void name and two raw-context names.
Tags == {"div", "span", "p", "br", "pre", "code"}

\* Messages the tokenizer may pass to error().
LexMessages == {"malformed start tag"}

\* ---------------------------------------------------------------- messages
SuperfluousMsg(tag) == <<"Superfluous closing tag for void element", tag>>
UnmatchedMsg(tag) == <<"Unmatched closing tag (stack is empty)", tag>>
MismatchedMsg(expected_tag, tag) == <<"Mismatched closing tag", expected_tag, tag>>
UnclosedMsg(tag) == <<"Unclosed tag", tag>>
LexMsg(message) == <<message>>

Diag(pos, msg) == [pos |-> pos, msg |-> msg]

\* ------------------------------------------------------------ MyHTMLParser
\* The object state after MyHTMLParser.__init__.
MyHTMLParser ==
    [tags_stack |-> <<>>, errors |-> <<>>, tags_count |-> 0,
     is_in_raw_context |-> FALSE]

Last(s) == s[Len(s)]
Front(s) == SubSeq(s, 1, Len(s) - 1)

\* Faulty variants of handle_starttag, each with one slip.
handle_starttag_NoCountInRaw(self, tag) ==
    IF self.is_in_raw_context
    THEN self
    ELSE LET counted == [self EXCEPT !.tags_count = @ + 1]
             flagged == IF tag \in raw_context_tags
                        THEN [counted EXCEPT !.is_in_raw_context = TRUE]
                        ELSE counted
         IN  IF tag \notin HTML_VOID_ELEMENTS
             THEN [flagged EXCEPT !.tags_stack = Append(@, tag)]
             ELSE flagged

handle_starttag_PushVoid(self, tag) ==
    LET counted == [self EXCEPT !.tags_count = @ + 1]
    IN  IF self.is_in_raw_context
        THEN counted
        ELSE LET flagged == IF tag \in raw_context_tags
                            THEN [counted EXCEPT !.is_in_raw_context = TRUE]
                            ELSE counted
             IN  [flagged EXCEPT !.tags_stack = Append(@, tag)]

handle_starttag_NoPushRaw(self, tag) ==
    LET counted == [self EXCEPT !.tags_count = @ + 1]
    IN  IF self.is_in_raw_context
        THEN counted
        ELSE IF tag \in raw_context_tags
             THEN [counted EXCEPT !.is_in_raw_context = TRUE]
             ELSE IF tag \notin HTML_VOID_ELEMENTS
                  THEN [counted EXCEPT !.tags_stack = Append(@, tag)]
                  ELSE counted

handle_starttag_PushInRaw(self, tag) ==
    LET counted == [self EXCEPT !.tags_count = @ + 1]
        flagged == IF tag \in raw_context_tags
                   THEN [counted EXCEPT !.is_in_raw_context = TRUE]
                   ELSE counted
    IN  IF tag \notin HTML_VOID_ELEMENTS
        THEN [flagged EXCEPT !.tags_stack = Append(@, tag)]
        ELSE flagged

handle_starttag(self, tag) ==
    LET counted == [self EXCEPT !.tags_count = @ + 1]
    IN  IF self.is_in_raw_context
        THEN counted
        ELSE LET flagged == IF tag \in raw_context_tags
                            THEN [counted EXCEPT !.is_in_raw_context = TRUE]
                            ELSE counted
             IN  IF tag \notin HTML_VOID_ELEMENTS
                 THEN [flagged EXCEPT !.tags_stack = Append(@, tag)]
                 ELSE flagged

\* The part of handle_endtag after the raw-context early return.
endtag_checked(self, tag, pos) ==
    LET cleared == IF tag \in raw_context_tags
                   THEN [self EXCEPT !.is_in_raw_context = FALSE]
                   ELSE self
    IN  IF tag \in HTML_VOID_ELEMENTS
        THEN [cleared EXCEPT !.errors = Append(@, Diag(pos, SuperfluousMsg(tag)))]
        ELSE IF cleared.tags_stack = <<>>
        THEN [cleared EXCEPT !.errors = Append(@, Diag(pos, UnmatchedMsg(tag)))]
        ELSE IF Last(cleared.tags_stack) = tag
        THEN [cleared EXCEPT !.tags_stack = Front(@)]
        ELSE [cleared EXCEPT !.errors =
                 Append(@, Diag(pos, MismatchedMsg(Last(cleared.tags_stack), tag)))]

\* Faulty variants of handle_endtag, each with one slip.
handle_endtag_NoPop(self, tag, pos) ==
    IF self.is_in_raw_context /\ tag \notin raw_context_tags
    THEN self
    ELSE LET r == endtag_checked(self, tag, pos)
         IN  [r EXCEPT !.tags_stack = self.tags_stack]

handle_endtag_PopOnMismatch(self, tag, pos) ==
    IF self.is_in_raw_context /\ tag \notin raw_context_tags
    THEN self
    ELSE LET r == endtag_checked(self, tag, pos)
         IN  IF /\ tag \notin HTML_VOID_ELEMENTS
                /\ self.tags_stack # <<>>
                /\ Last(self.tags_stack) # tag
             THEN [r EXCEPT !.tags_stack = Front(@)]
             ELSE r

handle_endtag_SilentOnEmpty(self, tag, pos) ==
    IF self.is_in_raw_context /\ tag \notin raw_context_tags
    THEN self
    ELSE IF tag \notin HTML_VOID_ELEMENTS /\ self.tags_stack = <<>>
         THEN self
         ELSE endtag_checked(self, tag, pos)

handle_endtag_VoidPops(self, tag, pos) ==
    IF self.is_in_raw_context /\ tag \notin raw_context_tags
    THEN self
    ELSE LET r == endtag_checked(self, tag, pos)
         IN  IF tag \in HTML_VOID_ELEMENTS /\ self.tags_stack # <<>>
             THEN [r EXCEPT !.tags_stack = Front(@)]
             ELSE r

handle_endtag_CheckedInRaw(self, tag, pos) ==
    endtag_checked(self, tag, pos)

handle_endtag_ClearsOnlyOwn(self, tag, pos) ==
    IF self.is_in_raw_context /\ tag \notin raw_context_tags
    THEN self
    ELSE LET r == endtag_checked(self, tag, pos)
         IN  IF /\ self.is_in_raw_context
                /\ self.tags_stack # <<>>
                /\ Last(self.tags_stack) # tag
             THEN [r EXCEPT !.is_in_raw_context = TRUE]
             ELSE r

handle_endtag(self, tag, pos) ==
    IF self.is_in_raw_context /\ tag \notin raw_context_tags
    THEN self
    ELSE endtag_checked(self, tag, pos)

\* Faulty variant of error: the message also ends the raw context.
error_ClearsRaw(self, message, pos) ==
    [self EXCEPT !.errors = Append(@, Diag(pos, LexMsg(message))),
                 !.is_in_raw_context = FALSE]

error(self, message, pos) ==
    [self EXCEPT !.errors = Append(@, Diag(pos, LexMsg(message)))]

\* ------------------------------------------------------------ tag events
OpenEv(tag, pos) == [kind |-> "Open", tag |-> tag, pos |-> pos]
CloseEv(tag, pos) == [kind |-> "Close", tag |-> tag, pos |-> pos]
LexEv(message, pos) == [kind |-> "LexError", tag |-> message, pos |-> pos]

\* One callback of HTMLParser.feed for one event.
dispatch(self, e) ==
    CASE e.kind = "Open" -> handle_starttag(self, e.tag)
      [] e.kind = "Close" -> handle_endtag(self, e.tag, e.pos)
      [] OTHER -> error(self, e.tag, e.pos)

\* parser.feed(content) for the event stream evs, from parser state self.
RECURSIVE feed(_, _)
feed(self, evs) ==
    IF evs = <<>> THEN self ELSE feed(dispatch(self, Head(evs)), Tail(evs))

\* Faulty variant of unclosed: bottom of the stack first.
RECURSIVE unclosed_Forward(_)
unclosed_Forward(stack) ==
    IF stack = <<>> THEN <<>>
    ELSE <<Diag(<<0, 0>>, UnclosedMsg(Head(stack)))>> \o unclosed_Forward(Tail(stack))

\* The synthetic end-of-document diagnostics of validate_file.
RECURSIVE unclosed(_)
unclosed(stack) ==
    IF stack = <<>> THEN <<>>
    ELSE <<Diag(<<0, 0>>, UnclosedMsg(Last(stack)))>> \o unclosed(Front(stack))

\* ------------------------------------------------------- parsed XML trees
\* An element below the root: its tag, its type attribute and its direct
\* children by kind.
XmlNodes ==
    [tag : {"question", "category"}, type : {"multichoice", "truefalse"},
     name : BOOLEAN, questiontext : BOOLEAN, answers : 0..MaxAnswers]

RECURSIVE SeqsUpTo(_, _)
SeqsUpTo(S, n) ==
    IF n = 0 THEN {<<>>}
    ELSE LET shorter == SeqsUpTo(S, n - 1)
         IN  shorter \cup {Append(s, x) : s \in {t \in shorter : Len(t) = n - 1}, x \in S}

\* Positions ET.ParseError may report.
ParsePositions == {<<1, 16>>}

\* What ET.fromstring(content) yields: a tree, or a ParseError with a position.
XmlDocs ==
    {[ok |-> TRUE, nodes |-> ns, position |-> <<0, 0>>] : ns \in SeqsUpTo(XmlNodes, MaxNodes)}
    \cup {[ok |-> FALSE, nodes |-> <<>>, position |-> p] : p \in ParsePositions}

ParseErrorMsg(position) == <<"ParseError", position>>
MissingNameMsg == <<"Missing <name> tag in multichoice question">>
MissingQuestiontextMsg == <<"Missing <questiontext> tag in multichoice question">>
NoAnswerMsg == <<"No <answer> tags found in multichoice question">>

\* xml.etree.ElementTree.Element carries no sourceline attribute: reading
\* q.sourceline raises AttributeError.
ElementHasSourceline == FALSE

\* Line of the i-th node of the document.
sourceline(i) == i + 1

\* len(list(root.iter())): the root, every node and every child of a node.
RECURSIVE count_children(_)
count_children(ns) ==
    IF ns = <<>> THEN 0
    ELSE LET q == Head(ns)
         IN  1 + (IF q.name THEN 1 ELSE 0) + (IF q.questiontext THEN 1 ELSE 0)
               + q.answers + count_children(Tail(ns))

root_iter_len(doc) == 1 + count_children(doc.nodes)

\* errors.append((q.sourceline, msg)) inside validate_moodle_mc.
mc_append(acc, i, msg) ==
    IF acc.raised THEN acc
    ELSE IF ElementHasSourceline
         THEN [acc EXCEPT !.errors = Append(@, Diag(sourceline(i), msg))]
         ELSE [acc EXCEPT !.raised = TRUE]

\* The body of the loop over the matching questions.
mc_check(acc, q, i) ==
    LET a1 == IF ~q.name THEN mc_append(acc, i, MissingNameMsg) ELSE acc
        a2 == IF ~q.questiontext THEN mc_append(a1, i, MissingQuestiontextMsg) ELSE a1
    IN  IF q.answers = 0 THEN mc_append(a2, i, NoAnswerMsg) ELSE a2

IsMultichoice(q) == q.tag = "question" /\ q.type = "multichoice"

RECURSIVE mc_loop(_, _, _)
mc_loop(ns, i, acc) ==
    IF i > Len(ns) THEN acc
    ELSE mc_loop(ns, i + 1,
                 IF IsMultichoice(ns[i]) THEN mc_check(acc, ns[i], i) ELSE acc)

\* validate_moodle_mc(root): the errors list, or raised when an exception
\* left the function.
validate_moodle_mc(doc) == mc_loop(doc.nodes, 1, [raised |-> FALSE, errors |-> <<>>])

\* Faulty variant of xml_branch: the schema rule still runs after a ParseError.
xml_branch_CheckAfterParseError(doc, schema, errs) ==
    LET tags == IF doc.ok THEN root_iter_len(doc) ELSE 0
        parsed == IF doc.ok THEN errs
                  ELSE Append(errs, Diag(doc.position, ParseErrorMsg(doc.position)))
    IN  IF schema = "moodlemc"
        THEN LET r == validate_moodle_mc(doc)
             IN  [errors |-> IF r.raised THEN parsed ELSE parsed \o r.errors,
                  stats |-> [tags |-> tags,
                             errors |-> IF r.raised THEN 0 ELSE Len(parsed \o r.errors)],
                  raised |-> IF r.raised THEN "AttributeError" ELSE "none",
                  mc_called |-> TRUE]
        ELSE [errors |-> parsed, stats |-> [tags |-> tags, errors |-> Len(parsed)],
              raised |-> "none", mc_called |-> FALSE]

\* Lines 137-147, the XML branch of validate_file for the outcome doc of
\* ET.fromstring: the errors list, the stats, the exception that left the
\* branch ("none" when it returned) and whether validate_moodle_mc was called.
xml_branch(doc, schema, errs) ==
    IF ~doc.ok
    THEN [errors |-> Append(errs, Diag(doc.position, ParseErrorMsg(doc.position))),
          stats |-> [tags |-> 0, errors |-> 1],
          raised |-> "none", mc_called |-> FALSE]
    ELSE IF schema = "moodlemc"
    THEN LET r == validate_moodle_mc(doc)
         IN  IF r.raised
             THEN [errors |-> errs,
                   stats |-> [tags |-> root_iter_len(doc), errors |-> 0],
                   raised |-> "AttributeError", mc_called |-> TRUE]
             ELSE [errors |-> r.errors,
                   stats |-> [tags |-> root_iter_len(doc), errors |-> Len(r.errors)],
                   raised |-> "none", mc_called |-> TRUE]
    ELSE [errors |-> errs,
          stats |-> [tags |-> root_iter_len(doc), errors |-> Len(errs)],
          raised |-> "none", mc_called |-> FALSE]

\* ------------------------------------------------- validate_file as a whole
\* A tag-event stream from its events without positions.
MkEvents(shape) ==
    [i \in DOMAIN shape |->
        [kind |-> shape[i][1], tag |-> shape[i][2], pos |-> <<1, i - 1>>]]

\* Lines 115-125: how reading a file ends. "content": read as UTF-8 or,
\* after a decoding failure, as latin1; "ioerror": the UTF-8 open or read
\* fails with another exception; "fallback_ioerror": the UTF-8 read fails to
\* decode and the latin1 open or read then fails.
ReadOutcomes == {"content", "ioerror", "fallback_ioerror"}

\* The files of a batch run: unreadable, or readable with the tag events
\* (HTML) or the outcome of ET.fromstring (XML) of their content.
Unreadable == {[read |-> o, content |-> <<>>] : o \in ReadOutcomes \ {"content"}}

HtmlFiles ==
    {[read |-> "content", content |-> MkEvents(sh)] :
        sh \in {<<>>,
                <<<<"Open", "div">>, <<"Close", "div">>>>,
                <<<<"Open", "div">>>>,
                <<<<"Close", "br">>, <<"Close", "div">>>>,
                <<<<"Open", "pre">>, <<"Close", "div">>>>}}

CleanQuestion ==
    [tag |-> "question", type |-> "multichoice", name |-> TRUE,
     questiontext |-> TRUE, answers |-> 1]

BareQuestion ==
    [tag |-> "question", type |-> "multichoice", name |-> FALSE,
     questiontext |-> TRUE, answers |-> 0]

XmlFiles ==
    {[read |-> "content", content |-> d] :
        d \in {[ok |-> FALSE, nodes |-> <<>>, position |-> <<1, 16>>],
               [ok |-> TRUE, nodes |-> <<>>, position |-> <<0, 0>>],
               [ok |-> TRUE, nodes |-> <<CleanQuestion>>, position |-> <<0, 0>>],
               [ok |-> TRUE, nodes |-> <<BareQuestion>>, position |-> <<0, 0>>]}}

Files(fmt) == Unreadable \cup (IF fmt = "HTML" THEN HtmlFiles ELSE XmlFiles)

\* One printed block: its kind, and the file and directory it belongs to.
Line(kind, file, d) == [kind |-> kind, file |-> file, dir |-> d]

RECURSIVE DiagLines(_, _, _)
DiagLines(n, file, d) ==
    IF n = 0 THEN <<>> ELSE <<Line("diag", file, d)>> \o DiagLines(n - 1, file, d)

\* Faulty variant of print_report: the statistics block comes first.
print_report_StatsFirst(errs, is_batch_mode, st, file, d) ==
    (IF st /\ ~is_batch_mode THEN <<Line("statistics", file, d)>> ELSE <<>>)
    \o (IF errs # <<>>
        THEN <<Line("errors_header", file, d)>> \o DiagLines(Len(errs), file, d)
        ELSE IF ~is_batch_mode THEN <<Line("valid", file, d)>> ELSE <<>>)

\* Lines 149-168: what validate_file prints for the errors list errs.
print_report(errs, is_batch_mode, st, file, d) ==
    (IF errs # <<>>
     THEN <<Line("errors_header", file, d)>> \o DiagLines(Len(errs), file, d)
     ELSE IF ~is_batch_mode THEN <<Line("valid", file, d)>> ELSE <<>>)
    \o (IF st /\ ~is_batch_mode THEN <<Line("statistics", file, d)>> ELSE <<>>)

\* Faulty variant of parse_html: the parser object of the previous call is fed again.
parse_html_Reuse(prev, evs) == feed(prev, evs)

\* Lines 128-129: a new MyHTMLParser is fed the content; prev, the parser
\* object of the previous call, is not used.
parse_html(prev, evs) == feed(MyHTMLParser, evs)

\* Lines 123-125: the read failed; print and return {'tags': 0, 'errors': 1}.
read_failed(prev, file, d) ==
    [parser |-> prev, errors |-> <<>>, stats |-> [tags |-> 0, errors |-> 1],
     raised |-> "none", mc_called |-> FALSE,
     out |-> <<Line("critical_read", file, d)>>]

\* Lines 127-170 for a file that was read.
validate_content(prev, doc, fmt, schema, st, is_batch_mode, file, d) ==
    IF fmt = "HTML"
    THEN LET p == parse_html(prev, doc.content)
             all == p.errors \o unclosed(p.tags_stack)
         IN  [parser |-> [p EXCEPT !.errors = all],
              errors |-> all,
              stats |-> [tags |-> p.tags_count, errors |-> Len(all)],
              raised |-> "none", mc_called |-> FALSE,
              out |-> print_report(all, is_batch_mode, st, file, d)]
    ELSE LET r == xml_branch(doc.content, schema, <<>>)
         IN  [parser |-> prev,
              errors |-> r.errors,
              stats |-> r.stats,
              raised |-> r.raised, mc_called |-> r.mc_called,
              out |-> IF r.raised = "none"
                      THEN print_report(r.errors, is_batch_mode, st, file, d)
                      ELSE <<>>]

\* Lines 119-121: the latin1 read fails inside the except clause; nothing
\* is printed and the exception leaves validate_file.
read_raised(prev) ==
    [parser |-> prev, errors |-> <<>>, stats |-> [tags |-> 0, errors |-> 0],
     raised |-> "OSError", mc_called |-> FALSE, out |-> <<>>]

\* validate_file(file_path, file_format, schema_option, color, stat,
\* is_batch_mode): the returned stats, what it printed, the exception that
\* left it, and the parser object it leaves behind.
validate_file(prev, doc, fmt, schema, st, is_batch_mode, file, d) ==
    IF doc.read = "ioerror"
    THEN read_failed(prev, file, d)
    ELSE IF doc.read = "fallback_ioerror"
    THEN read_raised(prev)
    ELSE validate_content(prev, doc, fmt, schema, st, is_batch_mode, file, d)

\* ------------------------------------------------------------------- state
VARIABLES
    pc,             \* position in validate_file
    file_format,    \* the file_format argument
    schema_option,  \* the schema_option argument
    parser,         \* the MyHTMLParser object
    events,         \* the tag events fed so far (history of parser.feed)
    errors,         \* validate_file's errors list
    stats,          \* validate_file's stats dict
    root,           \* the parsed XML document
    raised,         \* the exception that left validate_file, or "none"
    mc_called,      \* whether validate_moodle_mc was called (history)
    bpc,            \* position in main
    mode,           \* "single", "flat" or "recursive" (args.all, args.recursive)
    stat,           \* args.stat
    global_summary, \* main's global_summary dict
    dir_summary,    \* main's dir_summary dict
    dir,            \* number of the directory os.walk is at
    dir_files,      \* files of this directory validated so far
    out,            \* the blocks printed so far
    results,        \* per validated file: the file and what validate_file gave (history)
    dir_done        \* the dir_summary of every directory left so far (history)

bvars == <<bpc, mode, stat, global_summary, dir_summary, dir, dir_files, out, results,
           dir_done>>

vars == <<pc, file_format, schema_option, parser, events, errors, stats, root, raised,
          mc_called, bvars>>

NoGlobal == [files_scanned |-> 0, files_with_errors |-> 0, total_errors |-> 0,
             total_tags |-> 0]
NoDir == [files_scanned |-> 0, files_with_errors |-> 0, total_errors |-> 0]

\* Position reported by getpos() for the next event: line 1, one column per event.
getpos == <<1, Len(events)>>

NoRoot == [ok |-> FALSE, nodes |-> <<>>, position |-> <<0, 0>>]

Init ==
    /\ pc = "read"
    /\ file_format = "unset"
    /\ schema_option = "unset"
    /\ parser = MyHTMLParser
    /\ events = <<>>
    /\ errors = <<>>
    /\ stats = [tags |-> 0, errors |-> 0]
    /\ root = NoRoot
    /\ raised = "none"
    /\ mc_called = FALSE
    /\ bpc = "call"
    /\ mode = "single"
    /\ stat = FALSE
    /\ global_summary = NoGlobal
    /\ dir_summary = NoDir
    /\ dir = 0
    /\ dir_files = 0
    /\ out = <<>>
    /\ results = <<>>
    /\ dir_done = <<>>

\* Lines 110-125: enter validate_file and read the file. A failure of the
\* UTF-8 read other than a decoding failure returns {'tags': 0, 'errors': 1};
\* after a decoding failure the file is read again as latin1, outside the
\* try, so a failure of that second read leaves validate_file as an exception.
ReadFile ==
    /\ pc = "read"
    /\ \E fmt \in {"HTML", "XML"}, outcome \in ReadOutcomes :
          /\ file_format' = fmt
          /\ stats' = IF outcome = "ioerror" THEN [tags |-> 0, errors |-> 1] ELSE stats
          /\ raised' = IF outcome = "fallback_ioerror" THEN "OSError" ELSE raised
          /\ pc' = CASE outcome = "ioerror" -> "read_failed"
                    [] outcome = "fallback_ioerror" -> "read_raised"
                    [] OTHER -> IF fmt = "HTML" THEN "feed" ELSE "xml"
    /\ UNCHANGED <<schema_option, parser, events, errors, root, mc_called, bvars>>

FeedStartTag ==
    /\ pc = "feed"
    /\ Len(events) < MaxEvents
    /\ \E tag \in Tags :
          /\ parser' = handle_starttag(parser, tag)
          /\ events' = Append(events, OpenEv(tag, getpos))
    /\ UNCHANGED <<pc, file_format, schema_option, errors, stats, root, raised, mc_called, bvars>>

\* Faulty variant of FeedEndTag: the first diagnostic ends the feed.
FeedEndTag_StopsAfterError ==
    /\ pc = "feed"
    /\ Len(events) < MaxEvents
    /\ parser.errors = <<>>
    /\ \E tag \in Tags :
          /\ parser' = handle_endtag(parser, tag, getpos)
          /\ events' = Append(events, CloseEv(tag, getpos))
    /\ UNCHANGED <<pc, file_format, schema_option, errors, stats, root, raised, mc_called, bvars>>

FeedEndTag ==
    /\ pc = "feed"
    /\ Len(events) < MaxEvents
    /\ \E tag \in Tags :
          /\ parser' = handle_endtag(parser, tag, getpos)
          /\ events' = Append(events, CloseEv(tag, getpos))
    /\ UNCHANGED <<pc, file_format, schema_option, errors, stats, root, raised, mc_called, bvars>>

FeedError ==
    /\ pc = "feed"
    /\ Len(events) < MaxEvents
    /\ \E message \in LexMessages :
          /\ parser' = error(parser, message, getpos)
          /\ events' = Append(events, LexEv(message, getpos))
    /\ UNCHANGED <<pc, file_format, schema_option, errors, stats, root, raised, mc_called, bvars>>

\* Lines 130-135: errors aliases parser.errors, so the unclosed-tag
\* diagnostics land in both.
HtmlFinish ==
    /\ pc = "feed"
    /\ LET all == parser.errors \o unclosed(parser.tags_stack)
       IN  /\ errors' = all
           /\ parser' = [parser EXCEPT !.errors = all]
           /\ stats' = [tags |-> parser.tags_count, errors |-> Len(all)]
    /\ pc' = "done"
    /\ UNCHANGED <<file_format, schema_option, events, root, raised, mc_called, bvars>>

\* Lines 137-147: parse the content; count the nodes; apply the schema rule
\* when it was requested. An exception other than ET.ParseError leaves
\* validate_file.
ValidateXML ==
    /\ pc = "xml"
    /\ \E doc \in XmlDocs, schema \in {"none", "moodlemc"} :
          LET r == xml_branch(doc, schema, errors)
          IN  /\ root' = doc
              /\ schema_option' = schema
              /\ errors' = r.errors
              /\ stats' = r.stats
              /\ raised' = r.raised
              /\ mc_called' = r.mc_called
              /\ pc' = IF r.raised = "none" THEN "done" ELSE "raised"
    /\ UNCHANGED <<file_format, parser, events, bvars>>

Next ==
    \/ ReadFile
    \/ FeedStartTag
    \/ FeedEndTag
    \/ FeedError
    \/ HtmlFinish
    \/ ValidateXML

Spec == Init /\ [][Next]_vars

\* ------------------------------------------------------------------- main
\* main() once the arguments are parsed: single-file mode, or a batch scan
\* of a directory, flat or recursive.
InitBatch ==
    /\ pc = "main"
    /\ file_format \in {"HTML", "XML"}
    /\ schema_option \in {"none", "moodlemc"}
    /\ parser = MyHTMLParser
    /\ events = <<>>
    /\ errors = <<>>
    /\ stats = [tags |-> 0, errors |-> 0]
    /\ root = NoRoot
    /\ raised = "none"
    /\ mc_called = FALSE
    /\ mode \in {"single", "flat", "recursive"}
    /\ bpc = mode
    /\ stat \in BOOLEAN
    /\ global_summary = NoGlobal
    /\ dir_summary = NoDir
    /\ dir = 0
    /\ dir_files = 0
    /\ out = <<>>
    /\ results = <<>>
    /\ dir_done = <<>>

\* The history entry of one validate_file call.
Result(doc, r, after) ==
    [doc |-> doc, dir |-> dir, errors |-> r.errors, stats |-> r.stats,
     raised |-> r.raised, after |-> after]

\* Lines 364-368 / 394-398.
count_global(g, st) ==
    [files_scanned |-> g.files_scanned + 1,
     total_tags |-> g.total_tags + st.tags,
     total_errors |-> g.total_errors + st.errors,
     files_with_errors |-> g.files_with_errors + (IF st.errors > 0 THEN 1 ELSE 0)]

\* Lines 359-362.
count_dir(ds, st) ==
    [files_scanned |-> ds.files_scanned + 1,
     total_errors |-> ds.total_errors + st.errors,
     files_with_errors |-> ds.files_with_errors + (IF st.errors > 0 THEN 1 ELSE 0)]

\* Lines 416-425: single-file mode; an exception of validate_file leaves main.
SingleFile ==
    /\ bpc = "single"
    /\ \E doc \in Files(file_format) :
          LET r == validate_file(parser, doc, file_format, schema_option, stat, FALSE, 1, 0)
          IN  /\ parser' = r.parser
              /\ errors' = r.errors
              /\ stats' = r.stats
              /\ raised' = r.raised
              /\ mc_called' = r.mc_called
              /\ out' = out \o r.out
              /\ results' = Append(results, Result(doc, r, global_summary))
    /\ bpc' = "finished"
    /\ UNCHANGED <<pc, file_format, schema_option, events, root, mode, stat,
                   global_summary, dir_summary, dir, dir_files, dir_done>>

\* Lines 340-352: os.walk yields the next directory, which has matching files.
EnterDir ==
    /\ bpc = "recursive"
    /\ dir < MaxDirs
    /\ Len(results) < MaxFiles
    /\ dir' = dir + 1
    /\ dir_summary' = NoDir
    /\ dir_files' = 0
    /\ out' = IF stat THEN Append(out, Line("dir_header", 0, dir + 1)) ELSE out
    /\ bpc' = "dir"
    /\ UNCHANGED <<pc, file_format, schema_option, parser, events, errors, stats, root,
                   raised, mc_called, mode, stat, global_summary, results, dir_done>>

\* Lines 340-349: os.walk yields a directory without matching files.
SkipDir ==
    /\ bpc = "recursive"
    /\ dir < MaxDirs
    /\ dir' = dir + 1
    /\ dir_summary' = NoDir
    /\ dir_done' = Append(dir_done, NoDir)
    /\ UNCHANGED <<pc, file_format, schema_option, parser, events, errors, stats, root,
                   raised, mc_called, bpc, mode, stat, global_summary, dir_files, out,
                   results>>

\* Lines 354-371: one file of the directory; an exception of validate_file
\* is printed and the file is not counted.
ScanFileRecursive ==
    /\ bpc = "dir"
    /\ Len(results) < MaxFiles
    /\ \E doc \in Files(file_format) :
          LET file == Len(results) + 1
              r == validate_file(parser, doc, file_format, schema_option, stat, TRUE,
                                 file, dir)
              after == IF r.raised = "none" THEN count_global(global_summary, r.stats)
                       ELSE global_summary
          IN  /\ parser' = r.parser
              /\ errors' = r.errors
              /\ stats' = r.stats
              /\ mc_called' = r.mc_called
              /\ global_summary' = after
              /\ dir_summary' = IF r.raised = "none" THEN count_dir(dir_summary, r.stats)
                                ELSE dir_summary
              /\ out' = IF r.raised = "none" THEN out \o r.out
                        ELSE out \o r.out \o <<Line("critical_scan", file, dir)>>
              /\ results' = Append(results, Result(doc, r, after))
    /\ dir_files' = dir_files + 1
    /\ UNCHANGED <<pc, file_format, schema_option, events, root, raised, bpc, mode, stat,
                   dir, dir_done>>

\* Lines 373-377: the directory's files are done.
LeaveDir ==
    /\ bpc = "dir"
    /\ dir_files > 0
    /\ out' = IF stat /\ dir_summary.files_scanned > 0
              THEN Append(out, Line("dir_summary", 0, dir))
              ELSE out
    /\ dir_done' = Append(dir_done, dir_summary)
    /\ bpc' = "recursive"
    /\ UNCHANGED <<pc, file_format, schema_option, parser, events, errors, stats, root,
                   raised, mc_called, mode, stat, global_summary, dir_summary, dir,
                   dir_files, results>>

\* Lines 390-400: one file of the flat scan.
ScanFileFlat ==
    /\ bpc = "flat"
    /\ Len(results) < MaxFiles
    /\ \E doc \in Files(file_format) :
          LET file == Len(results) + 1
              r == validate_file(parser, doc, file_format, schema_option, stat, TRUE,
                                 file, 0)
              after == IF r.raised = "none" THEN count_global(global_summary, r.stats)
                       ELSE global_summary
          IN  /\ parser' = r.parser
              /\ errors' = r.errors
              /\ stats' = r.stats
              /\ mc_called' = r.mc_called
              /\ global_summary' = after
              /\ out' = IF r.raised = "none" THEN out \o r.out
                        ELSE out \o r.out \o <<Line("critical_scan", file, 0)>>
              /\ results' = Append(results, Result(doc, r, after))
    /\ UNCHANGED <<pc, file_format, schema_option, events, root, raised, bpc, mode, stat,
                   dir_summary, dir, dir_files, dir_done>>

\* Lines 402-412: the global summary.
FinishBatch ==
    /\ bpc \in {"flat", "recursive"}
    /\ out' = IF stat /\ global_summary.files_scanned > 0
              THEN Append(out, Line("global_summary", 0, 0))
              ELSE IF global_summary.files_scanned = 0
              THEN Append(out, Line("no_files", 0, 0))
              ELSE out
    /\ bpc' = "finished"
    /\ UNCHANGED <<pc, file_format, schema_option, parser, events, errors, stats, root,
                   raised, mc_called, mode, stat, global_summary, dir_summary, dir,
                   dir_files, results, dir_done>>

NextBatch ==
    \/ SingleFile
    \/ EnterDir
    \/ SkipDir
    \/ ScanFileRecursive
    \/ LeaveDir
    \/ ScanFileFlat
    \/ FinishBatch

SpecBatch == InitBatch /\ [][NextBatch]_vars

\* ---------------------------------------------------- notions of the claims
NumOpen(evs) == Cardinality({i \in DOMAIN evs : evs[i].kind = "Open"})

\* The events of a stream without their positions.
Shape(evs) == [i \in DOMAIN evs |-> <<evs[i].kind, evs[i].tag>>]

\* Each Close names the most recently opened, not yet closed element, and
\* every Open is closed.
RECURSIVE Nests(_, _)
Nests(evs, open) ==
    IF evs = <<>> THEN open = <<>>
    ELSE LET e == Head(evs)
         IN  CASE e.kind = "Open" -> Nests(Tail(evs), Append(open, e.tag))
               [] e.kind = "Close" ->
                    /\ open # <<>>
                    /\ Last(open) = e.tag
                    /\ Nests(Tail(evs), Front(open))
               [] OTHER -> FALSE

WellNested(evs) == Nests(evs, <<>>)

OrdinaryOnly(evs) ==
    \A i \in DOMAIN evs : evs[i].tag \notin (HTML_VOID_ELEMENTS \cup raw_context_tags)

HtmlDone == pc = "done" /\ file_format = "HTML"

\* C1: a well-nested event stream without void and raw-context names ends
\* with no diagnostics, an empty stack and tagCount equal to the number of
\* Open events.
C1_WellNestedClean ==
    (HtmlDone /\ WellNested(events) /\ OrdinaryOnly(events)) =>
        /\ errors = <<>>
        /\ parser.tags_stack = <<>>
        /\ stats = [tags |-> NumOpen(events), errors |-> 0]

C1_Witness ==
    /\ HtmlDone
    /\ WellNested(events)
    /\ OrdinaryOnly(events)
    /\ Shape(events) = <<<<"Open", "div">>, <<"Open", "span">>,
                         <<"Close", "span">>, <<"Close", "div">>>>

\* C3: at end of input the errors list is the in-document diagnostics
\* followed by one "Unclosed tag" diagnostic per name left on the stack, from
\* the top of the stack to its bottom, each at position (0, 0); Open(div),
\* Open(span), Close(div) gives Mismatched(span, div), Unclosed(span),
\* Unclosed(div).
C3_UnclosedAtEnd ==
    HtmlDone =>
        LET stack == parser.tags_stack
            n == Len(stack)
            m == Len(errors) - n
        IN  /\ m >= 0
            /\ SubSeq(errors, 1, m) = feed(MyHTMLParser, events).errors
            /\ \A j \in 1..m : errors[j].pos # <<0, 0>>
            /\ \A i \in 1..n :
                  errors[m + i] = Diag(<<0, 0>>, UnclosedMsg(stack[n - i + 1]))
            /\ Shape(events) = <<<<"Open", "div">>, <<"Open", "span">>, <<"Close", "div">>>>
                  => errors = <<Diag(<<1, 2>>, MismatchedMsg("span", "div")),
                                Diag(<<0, 0>>, UnclosedMsg("span")),
                                Diag(<<0, 0>>, UnclosedMsg("div"))>>

C3_Witness ==
    /\ HtmlDone
    /\ Shape(events) = <<<<"Open", "div">>, <<"Open", "span">>, <<"Close", "div">>>>
    /\ Len(errors) = 3

\* C7: after any prefix of the event stream tags_count is the number of Open
\* events fed so far, whatever their names and whatever the raw-context flag.
C7_TagCountIsOpens == parser.tags_count = NumOpen(events)

C7_Witness ==
    /\ parser.is_in_raw_context
    /\ parser.tags_count = 3
    /\ Shape(events) = <<<<"Open", "br">>, <<"Open", "pre">>,
                         <<"Open", "div">>, <<"Close", "div">>>>

\* C9: the stack never holds a void element name, and Open(p), Open(br),
\* Close(p) ends with no diagnostics and a tag count of 2.
C9_NoVoidOnStack ==
    /\ \A i \in DOMAIN parser.tags_stack :
          parser.tags_stack[i] \notin HTML_VOID_ELEMENTS
    /\ (HtmlDone /\ Shape(events) = <<<<"Open", "p">>, <<"Open", "br">>, <<"Close", "p">>>>)
          => (errors = <<>> /\ stats = [tags |-> 2, errors |-> 0])

C9_Witness ==
    /\ HtmlDone
    /\ Shape(events) = <<<<"Open", "p">>, <<"Open", "br">>, <<"Close", "p">>>>
    /\ stats.tags = 2

\* The step fed one more event of this kind to the parser.
Fed(kind) == Len(events') = Len(events) + 1 /\ Last(events').kind = kind

\* handle_endtag returns at once: raw context, and the name is no raw-context name.
IgnoredInRaw(tag) == parser.is_in_raw_context /\ tag \notin raw_context_tags

\* The Close being fed names neither the stack top nor a void element.
MismatchCase(self, tag) ==
    /\ self.tags_stack # <<>>
    /\ Last(self.tags_stack) # tag
    /\ tag \notin HTML_VOID_ELEMENTS

MismatchEffect ==
    LET e == Last(events')
    IN  /\ parser'.errors =
              Append(parser.errors,
                     Diag(e.pos, MismatchedMsg(Last(parser.tags_stack), e.tag)))
        /\ parser'.tags_stack = parser.tags_stack

\* C2 as stated: every Close that names neither the stack top nor a void
\* element appends one Mismatched diagnostic and leaves the stack as it was.
C2_Original ==
    [][/\ (Fed("Close") /\ MismatchCase(parser, Last(events').tag)) => MismatchEffect
       /\ (/\ Fed("Close")
           /\ events # <<>>
           /\ Last(events).kind = "Close"
           /\ MismatchCase(feed(MyHTMLParser, Front(events)), Last(events).tag)
           /\ Last(events').tag = Last(parser.tags_stack))
          => /\ parser'.tags_stack = Front(parser.tags_stack)
             /\ parser'.errors = parser.errors]_vars

\* C2 amended: a Close that names neither the stack top nor a void element,
\* and that the raw context does not ignore, appends exactly one Mismatched
\* diagnostic (expected = stack top, got = its name) and leaves the stack as
\* it was; a Close of that unchanged top fed right after it pops the top and
\* appends nothing.
C2_MismatchKeepsStack ==
    [][/\ (Fed("Close") /\ MismatchCase(parser, Last(events').tag)
             /\ ~IgnoredInRaw(Last(events').tag))
          => MismatchEffect
       /\ (/\ Fed("Close")
           /\ events # <<>>
           /\ Last(events).kind = "Close"
           /\ LET before == feed(MyHTMLParser, Front(events))
                  tag == Last(events).tag
              IN  /\ MismatchCase(before, tag)
                  /\ ~(before.is_in_raw_context /\ tag \notin raw_context_tags)
           /\ Last(events').tag = Last(parser.tags_stack))
          => /\ parser'.tags_stack = Front(parser.tags_stack)
             /\ parser'.errors = parser.errors]_vars

C2_Witness ==
    /\ Shape(events) = <<<<"Open", "div">>, <<"Open", "span">>,
                         <<"Close", "div">>, <<"Close", "span">>>>
    /\ parser.tags_stack = <<"div">>
    /\ parser.errors = <<Diag(<<1, 2>>, MismatchedMsg("span", "div"))>>

VoidCloseEffect ==
    LET e == Last(events')
    IN  /\ parser'.errors = Append(parser.errors, Diag(e.pos, SuperfluousMsg(e.tag)))
        /\ parser'.tags_stack = parser.tags_stack

\* C4 as stated: in every state, whatever the raw-context flag, a Close of a
\* void name appends one Superfluous diagnostic and leaves the stack.
C4_Original ==
    [][(Fed("Close") /\ Last(events').tag \in HTML_VOID_ELEMENTS) => VoidCloseEffect]_vars

\* C4 amended: in every state whose raw-context flag is false (any stack,
\* empty included) a Close of a void name appends exactly one Superfluous
\* diagnostic and leaves the stack; while the flag is true the Close is
\* ignored and the parser is unchanged.
C4_VoidCloseOutsideRaw ==
    [][(Fed("Close") /\ Last(events').tag \in HTML_VOID_ELEMENTS)
          => IF parser.is_in_raw_context
             THEN parser' = parser
             ELSE VoidCloseEffect]_vars

C4_Witness ==
    /\ Shape(events) = <<<<"Close", "br">>, <<"Open", "div">>, <<"Close", "br">>>>
    /\ parser.tags_stack = <<"div">>
    /\ Len(parser.errors) = 2

\* The Opens of a raw-context name, taken outside raw context, that no later
\* event of evs closes: closed by a Close of the same name (same), or by a
\* Close of any raw-context name.
OpenSpans(evs, same) ==
    {i \in DOMAIN evs :
        /\ evs[i].kind = "Open"
        /\ evs[i].tag \in raw_context_tags
        /\ ~feed(MyHTMLParser, SubSeq(evs, 1, i - 1)).is_in_raw_context
        /\ \A j \in (i + 1)..Len(evs) :
              ~(/\ evs[j].kind = "Close"
                /\ IF same THEN evs[j].tag = evs[i].tag
                           ELSE evs[j].tag \in raw_context_tags)}

\* C5 as stated: no event between the Open of a raw-context element and the
\* next Close of that same name appends a diagnostic.
C5_Original ==
    [][\A i \in OpenSpans(events, TRUE) :
          (/\ Len(events') = Len(events) + 1
           /\ ~(Last(events').kind = "Close" /\ Last(events').tag = events[i].tag))
          => parser'.errors = parser.errors]_vars

\* C5 amended: no Open or Close event between the Open of a raw-context
\* element (taken outside raw context) and the next Close of any raw-context
\* name appends a diagnostic.
C5_RawSpanSilent ==
    [][\A i \in OpenSpans(events, FALSE) :
          (/\ Len(events') = Len(events) + 1
           /\ Last(events').kind \in {"Open", "Close"}
           /\ ~(Last(events').kind = "Close" /\ Last(events').tag \in raw_context_tags))
          => parser'.errors = parser.errors]_vars

C5_Witness ==
    /\ Shape(events) = <<<<"Open", "pre">>, <<"Open", "div">>,
                         <<"Close", "span">>, <<"Close", "br">>>>
    /\ parser.errors = <<>>
    /\ parser.is_in_raw_context

\* An Unclosed diagnostic for tag is among the errors.
HasUnclosed(tag) == \E k \in DOMAIN errors : errors[k] = Diag(<<0, 0>>, UnclosedMsg(tag))

\* C6 as stated: the stack never holds a raw-context name, and a raw-context
\* element opened and never closed gets no Unclosed diagnostic.
C6_Original ==
    /\ \A i \in DOMAIN parser.tags_stack : parser.tags_stack[i] \notin raw_context_tags
    /\ HtmlDone => \A i \in OpenSpans(events, TRUE) : ~HasUnclosed(events[i].tag)

\* C6 amended: an Open of a raw-context name outside raw context sets the flag
\* and pushes the name, so a stream that opens a raw-context element and
\* never closes it ends with an Unclosed diagnostic for it.
C6_RawIsPushed ==
    /\ (/\ events # <<>>
        /\ pc = "feed"
        /\ Last(events).kind = "Open"
        /\ Last(events).tag \in raw_context_tags
        /\ ~feed(MyHTMLParser, Front(events)).is_in_raw_context)
       => /\ parser.is_in_raw_context
          /\ parser.tags_stack =
                Append(feed(MyHTMLParser, Front(events)).tags_stack, Last(events).tag)
    /\ HtmlDone => \A i \in OpenSpans(events, TRUE) : HasUnclosed(events[i].tag)

C6_Witness ==
    /\ HtmlDone
    /\ Shape(events) = <<<<"Open", "pre">>, <<"Open", "div">>>>
    /\ errors = <<Diag(<<0, 0>>, UnclosedMsg("pre"))>>

RemoveAt(s, i) == SubSeq(s, 1, i - 1) \o SubSeq(s, i + 1, Len(s))
InsertAt(s, k, x) == SubSeq(s, 1, k - 1) \o <<x>> \o SubSeq(s, k, Len(s))

\* C8: a Close of a non-void name fed on an empty stack adds exactly one
\* Unmatched diagnostic, and the run is otherwise the run of the same stream
\* without that Close: same stack, flag and tag count, and the same
\* diagnostics with the Unmatched one inserted where the Close stood.
C8_UnmatchedClose ==
    file_format = "HTML" =>
    \A i \in DOMAIN events :
        LET e == events[i]
            before == feed(MyHTMLParser, SubSeq(events, 1, i - 1))
            alt == feed(MyHTMLParser, RemoveAt(events, i))
            altErrors == IF pc = "done"
                         THEN alt.errors \o unclosed(alt.tags_stack)
                         ELSE alt.errors
        IN  (e.kind = "Close" /\ e.tag \notin HTML_VOID_ELEMENTS /\ before.tags_stack = <<>>)
            => /\ parser.tags_stack = alt.tags_stack
               /\ parser.is_in_raw_context = alt.is_in_raw_context
               /\ parser.tags_count = alt.tags_count
               /\ parser.errors =
                     InsertAt(altErrors, Len(before.errors) + 1,
                              Diag(e.pos, UnmatchedMsg(e.tag)))

C8_Witness ==
    /\ Shape(events) = <<<<"Close", "div">>, <<"Open", "span">>,
                         <<"Close", "span">>, <<"Close", "code">>>>
    /\ parser.tags_stack = <<>>
    /\ Len(parser.errors) = 2

\* The diagnostics positioned at the i-th node of the document.
DiagsAt(i) == SelectSeq(errors, LAMBDA d : d.pos = sourceline(i))

\* C10: for a multichoice question that lacks one of name / questiontext and
\* has no answer, the rule checker returns without raising, and the
\* diagnostics for that node are exactly the missing kind's and the
\* no-answer one, in that order.
C10_TwoMissing ==
    (pc \in {"done", "raised"} /\ file_format = "XML" /\ root.ok
        /\ schema_option = "moodlemc")
    => \A i \in DOMAIN root.nodes :
          LET q == root.nodes[i]
          IN  (IsMultichoice(q) /\ q.answers = 0 /\ q.name # q.questiontext)
              => /\ raised = "none"
                 /\ DiagsAt(i) =
                       <<Diag(sourceline(i),
                              IF q.name THEN MissingQuestiontextMsg ELSE MissingNameMsg),
                         Diag(sourceline(i), NoAnswerMsg)>>

\* C11: when the tree parser fails, validate_file returns exactly one
\* diagnostic carrying the parser's position and message and an error count
\* of 1, and validate_moodle_mc is not called, whatever the schema option.
C11_ParseFailure ==
    (file_format = "XML" /\ pc \in {"done", "raised"} /\ ~root.ok)
    => /\ pc = "done"
       /\ errors = <<Diag(root.position, ParseErrorMsg(root.position))>>
       /\ stats.errors = 1
       /\ ~mc_called

C11_Witness ==
    /\ file_format = "XML"
    /\ pc = "done"
    /\ ~root.ok
    /\ schema_option = "moodlemc"
    /\ Len(errors) = 1

\* C13: a diagnostic never stops the feed: whatever diagnostics earlier
\* events produced, the parser state is the fold of the handlers over all
\* events fed so far, each taken once in order; a further event of every kind
\* and the end of input can still be taken; and at the end validate_file
\* returns, without raising, all accumulated diagnostics together.
C13_NoAbort ==
    /\ pc = "feed" =>
          /\ parser = feed(MyHTMLParser, events)
          /\ ENABLED HtmlFinish
          /\ Len(events) < MaxEvents =>
                (ENABLED FeedStartTag /\ ENABLED FeedEndTag /\ ENABLED FeedError)
    /\ HtmlDone =>
          LET p == feed(MyHTMLParser, events)
          IN  /\ errors = p.errors \o unclosed(p.tags_stack)
              /\ stats.errors = Len(errors)
              /\ raised = "none"

C13_Witness ==
    /\ HtmlDone
    /\ Shape(events) = <<<<"Close", "div">>, <<"Close", "br">>,
                         <<"LexError", "malformed start tag">>, <<"Open", "span">>>>
    /\ Len(errors) = 4

\* C15: a LexError event appends exactly one diagnostic with its message and
\* position and leaves the stack, the raw-context flag and tags_count alone.
C15_LexErrorFrame ==
    [][Fed("LexError")
          => parser' = [parser EXCEPT !.errors =
                           Append(@, Diag(Last(events').pos, LexMsg(Last(events').tag)))]]_vars

C15_Witness ==
    /\ Shape(events) = <<<<"Open", "div">>, <<"Open", "pre">>,
                         <<"LexError", "malformed start tag">>>>
    /\ parser.is_in_raw_context
    /\ parser.tags_stack = <<"div", "pre">>
    /\ parser.errors = <<Diag(<<1, 2>>, LexMsg("malformed start tag"))>>

\* C18: while the raw-context flag is true an Open of any name changes only
\* tags_count, and a Close of a name that is no raw-context name changes
\* nothing.
C18_RawFrame ==
    [][parser.is_in_raw_context
          => /\ Fed("Open") => parser' = [parser EXCEPT !.tags_count = @ + 1]
             /\ (Fed("Close") /\ Last(events').tag \notin raw_context_tags)
                   => parser' = parser]_vars

C18_Witness ==
    /\ Shape(events) = <<<<"Open", "pre">>, <<"Open", "div">>,
                         <<"Close", "span">>, <<"Open", "code">>>>
    /\ parser.tags_stack = <<"pre">>
    /\ parser.tags_count = 3
    /\ parser.is_in_raw_context

\* C19: a Close of any raw-context name leaves the flag false, whichever name
\* opened the context, and the flag is true only after an Open of a
\* raw-context name that no Close of any raw-context name has followed.
C19_RawFlagSpan ==
    /\ (events # <<>> /\ Last(events).kind = "Close"
           /\ Last(events).tag \in raw_context_tags)
          => ~parser.is_in_raw_context
    /\ parser.is_in_raw_context
          => \E i \in DOMAIN events :
                /\ events[i].kind = "Open"
                /\ events[i].tag \in raw_context_tags
                /\ \A j \in (i + 1)..Len(events) :
                      ~(events[j].kind = "Close" /\ events[j].tag \in raw_context_tags)

C19_Witness ==
    /\ Shape(events) = <<<<"Open", "pre">>, <<"Close", "code">>>>
    /\ ~parser.is_in_raw_context
    /\ parser.tags_stack = <<"pre">>

\* C20: whenever the raw-context flag is true the stack is non-empty and its
\* top is the raw-context name whose Open set the flag, and no step that
\* keeps the flag true pushes or pops.
C20_RawTopOfStack ==
    /\ [](parser.is_in_raw_context
            => /\ parser.tags_stack # <<>>
               /\ Last(parser.tags_stack) \in raw_context_tags
               /\ OpenSpans(events, FALSE) # {}
               /\ \A i \in OpenSpans(events, FALSE) :
                     Last(parser.tags_stack) = events[i].tag)
    /\ [][(parser.is_in_raw_context /\ parser'.is_in_raw_context)
            => parser'.tags_stack = parser.tags_stack]_vars

C20_Witness ==
    /\ Shape(events) = <<<<"Open", "div">>, <<"Open", "pre">>,
                         <<"Open", "span">>, <<"Close", "div">>>>
    /\ parser.tags_stack = <<"div", "pre">>
    /\ parser.is_in_raw_context

\* ------------------------------------------------------ claims about main
RECURSIVE SumSeq(_)
SumSeq(s) == IF s = <<>> THEN 0 ELSE s[1] + SumSeq(Tail(s))

Batch == mode \in {"flat", "recursive"}

\* C12: in a batch the global accumulator is the sum, over every document
\* processed, of its error and tag counts, files_scanned is the number of
\* documents processed and files_with_errors the number of them with
\* errors; files_with_errors never exceeds files_scanned or total_errors;
\* and between directories the directory summaries sum to the global one.
C12_Accumulator ==
    Batch =>
        /\ global_summary.files_scanned = Len(results)
        /\ global_summary.total_errors
              = SumSeq([i \in DOMAIN results |-> results[i].stats.errors])
        /\ global_summary.total_tags
              = SumSeq([i \in DOMAIN results |-> results[i].stats.tags])
        /\ global_summary.files_with_errors
              = Cardinality({i \in DOMAIN results : results[i].stats.errors > 0})
        /\ global_summary.files_with_errors <= global_summary.files_scanned
        /\ global_summary.files_with_errors <= global_summary.total_errors
        /\ (mode = "recursive" /\ bpc \in {"recursive", "finished"})
              => /\ global_summary.files_scanned
                       = SumSeq([i \in DOMAIN dir_done |-> dir_done[i].files_scanned])
                 /\ global_summary.total_errors
                       = SumSeq([i \in DOMAIN dir_done |-> dir_done[i].total_errors])
                 /\ global_summary.files_with_errors
                       = SumSeq([i \in DOMAIN dir_done |-> dir_done[i].files_with_errors])

\* The accumulator before the i-th validated file.
Before(i) == IF i = 1 THEN NoGlobal ELSE results[i - 1].after

\* C14: validate_file of a document whose read fails with an I/O error
\* returns errors 1 and tags 0 without raising and without printing a
\* diagnostic, and in a batch that document is counted as one scanned file
\* with one error and the scan goes on to the next file.
C14_ReadFailure ==
    \A i \in DOMAIN results :
        results[i].doc.read # "content"
            => /\ results[i].raised = "none"
               /\ results[i].stats = [tags |-> 0, errors |-> 1]
               /\ results[i].errors = <<>>
               /\ \A k \in DOMAIN out : out[k].file = i => out[k].kind # "diag"
               /\ Batch
                     => /\ results[i].after
                              = [files_scanned |-> Before(i).files_scanned + 1,
                                 files_with_errors |-> Before(i).files_with_errors + 1,
                                 total_errors |-> Before(i).total_errors + 1,
                                 total_tags |-> Before(i).total_tags]
                        /\ (i = Len(results) /\ i < MaxFiles /\ bpc \in {"dir", "flat"})
                              => ENABLED (ScanFileRecursive \/ ScanFileFlat)

\* The result as (diagnostics, counts, exception).
Outcome(r) == <<r.errors, r.stats, r.raised>>

\* C16: what validate_file gives for a document does not depend on the
\* documents validated before it in the run: it is what a first call on a
\* new parser gives, the same document gives the same diagnostics and
\* counts wherever it stands, and as many diagnostics are printed for it.
C16_Independent ==
    \A i \in DOMAIN results :
        /\ Outcome(results[i])
              = Outcome(validate_file(MyHTMLParser, results[i].doc, file_format,
                                      schema_option, stat, Batch, i, results[i].dir))
        /\ \A j \in DOMAIN results :
              results[j].doc = results[i].doc => Outcome(results[j]) = Outcome(results[i])
        /\ Cardinality({k \in DOMAIN out : out[k].kind = "diag" /\ out[k].file = i})
              = Len(results[i].errors)

C16_Witness ==
    /\ Len(results) = 3
    /\ file_format = "HTML"
    /\ Shape(results[1].doc.content) = <<<<"Close", "br">>, <<"Close", "div">>>>
    /\ Shape(results[2].doc.content) = <<<<"Open", "pre">>, <<"Close", "div">>>>
    /\ results[3].doc = results[1].doc
    /\ Len(results[3].errors) = 2
    /\ parser.errors = results[3].errors

\* The printed blocks that give summary statistics.
SummaryKinds == {"statistics", "dir_summary", "global_summary"}

\* C17 as stated: with statistics requested, no diagnostic is printed after
\* a statistics or summary block.
C17_Original ==
    stat => \A a, b \in DOMAIN out :
                (a < b /\ out[a].kind \in SummaryKinds) => out[b].kind # "diag"

\* C17: with statistics requested, no diagnostic is printed after the
\* statistics block of single-file mode or after the global summary; a
\* diagnostic printed after a directory summary belongs to a document of a
\* later directory; the diagnostics of one document are printed together;
\* and in single-file mode the statistics block ends the output of a
\* validation that returned after reading the document.
C17_SummaryOrder ==
    stat =>
        /\ \A a, b \in DOMAIN out :
              (a < b /\ out[a].kind \in {"statistics", "global_summary"})
                  => out[b].kind # "diag"
        /\ \A a, b \in DOMAIN out :
              (a < b /\ out[a].kind = "dir_summary" /\ out[b].kind = "diag")
                  => out[b].dir > out[a].dir
        /\ \A a, b \in DOMAIN out :
              (a < b /\ out[a].kind = "diag" /\ out[b].kind = "diag"
                     /\ out[a].file = out[b].file)
                  => \A c \in a..b : out[c].kind = "diag"
        /\ (mode = "single" /\ bpc = "finished" /\ raised = "none"
                /\ results[1].doc.read = "content")
              => Last(out).kind = "statistics"

C17_Witness ==
    /\ stat
    /\ mode = "recursive"
    /\ bpc = "finished"
    /\ Last(out).kind = "global_summary"
    /\ \E a, b \in DOMAIN out :
          /\ a < b
          /\ out[a].kind = "dir_summary"
          /\ out[b].kind = "diag"
    /\ \E a \in DOMAIN out : out[a].kind = "diag" /\ out[a].dir = 1

====
